---------------------------- MODULE Spec2Model ----------------------------
(***************************************************************************)
(* Audio Scribe backend: the /transcribe upload-transcribe-cleanup         *)
(* lifecycle (routes/transcribe.py, services/transcription.py) and the     *)
(* /fix-grammar retrying caller (services/grammar_fixer.py).               *)
(*                                                                         *)
(* Each request is one asyncio task.  An action is the code a task runs    *)
(* between two suspension points (await), or one file-system step of the   *)
(* worker thread that run_in_executor starts.                              *)
(***************************************************************************)
EXTENDS Integers, Sequences, FiniteSets, TLC

(***************************************************************************)
(* Bounds of the model.                                                    *)
(***************************************************************************)
\* Longest text a /fix-grammar request carries (the route's threshold is 10).
MaxTextLen == 10
\* Number of distinct random name parts tempfile can draw.
NumRands == 2

\* The requests in flight in the one server process.
Reqs == {1, 2}

(***************************************************************************)
(* Strings are sequences of tokens (characters or fixed fragments), so     *)
(* that len(), strip() and "in" are computed, not assumed.                 *)
(***************************************************************************)
Whitespace == {" "}

RECURSIVE LStrip(_)
LStrip(s) == IF s # <<>> /\ Head(s) \in Whitespace THEN LStrip(Tail(s)) ELSE s

RECURSIVE RStrip(_)
RStrip(s) ==
  IF s # <<>> /\ s[Len(s)] \in Whitespace
    THEN RStrip(SubSeq(s, 1, Len(s) - 1)) ELSE s

\* str.strip()
Strip(s) == RStrip(LStrip(s))

\* fragment in string
Contains(s, frag) == \E i \in 1..Len(s) : s[i] = frag

\* Optional[str]: None or a str.
None == [tag |-> "None", v |-> <<>>]
Str(s) == [tag |-> "str", v |-> s]

\* An exception: its class and str(e).
Exc(cls, msg) == [cls |-> cls, msg |-> msg]
NoExc == Exc("", <<>>)

\* The result of a call: a returned value, or a raised exception.
Return(val) == [kind |-> "return", value |-> val, exc |-> NoExc]
Raise(e) == [kind |-> "raise", value |-> None, exc |-> e]
NoOutcome == [kind |-> "none", value |-> None, exc |-> NoExc]

(***************************************************************************)
(* File names and paths.  A name is the sequence of its dot-separated      *)
(* components: a.mp3 is <<"a", "mp3">>.                                      *)
(***************************************************************************)
Filenames == {<<"a", "mp3">>, <<"a", "wav">>}
Rands == 1..NumRands

\* os.path.splitext(name)[0]: the name without its last extension.
SplitextRoot(name) ==
  IF Len(name) > 1 THEN SubSeq(name, 1, Len(name) - 1) ELSE name

NoPath == [kind |-> "none", rand |-> 0, name |-> <<>>]

\* tempfile.NamedTemporaryFile(suffix="_" + filename): tmp<rand>_<filename>
TempPath(rand, filename) == [kind |-> "upload", rand |-> rand, name |-> filename]

\* temp_wav_<pid>_<splitext(basename(audio_filepath))[0]>.wav, same directory
WavPath(audio_filepath) ==
  [kind |-> "wav", rand |-> audio_filepath.rand,
   name |-> SplitextRoot(audio_filepath.name)]

(***************************************************************************)
(* Requests and responses.                                                 *)
(***************************************************************************)
NoFile == [present |-> FALSE, filename |-> <<>>, size |-> 0]
Upload(filename, size) == [present |-> TRUE, filename |-> filename, size |-> size]
Uploads == {NoFile} \cup {Upload(f, n) : f \in Filenames, n \in {0, 1}}

\* bool(file) of an UploadFile object: it defines neither __bool__ nor __len__.
Truthy(file) == file.present

TextOf(n) == [i \in 1..n |-> "x"]
NoText == [present |-> FALSE, v |-> <<>>]
Texts == {NoText} \cup {[present |-> TRUE, v |-> TextOf(n)] : n \in 0..MaxTextLen}

NoRequest == [route |-> "", file |-> NoFile, text |-> NoText]

Response(status, detail, filename, text) ==
  [status |-> status, detail |-> detail, filename |-> filename, text |-> text]
NoResponse == Response(0, <<>>, <<>>, None)

\* str(HTTPException(status_code, detail)) is "<status_code>: <detail>"
HTTPExceptionStr(status, detail) ==
  <<(CASE status = 400 -> "400" [] status = 500 -> "500" [] OTHER -> "?"), ": ">>
    \o detail
HTTPException(status, detail) ==
  [cls |-> "HTTPException", msg |-> HTTPExceptionStr(status, detail),
   status |-> status, detail |-> detail]

NoFileDetail == <<"No file was uploaded.">>
ServiceFailedDetail == <<"Transcription service failed", " to process the audio.">>
ErrorPrefix == <<"An error occurred during transcription: ">>
TooShortDetail == <<"Text provided is too short for grammar correction.">>
GrammarFailedDetail == <<"Grammar correction failed", " to return a result.">>
ModelFailedText == <<"Whisper model failed to load at startup. Cannot transcribe.">>

\* What the recognizer puts in result["text"].
RawTexts == {<<>>, <<" ">>, <<" ", "h", "i", " ">>}

VARIABLES
  WHISPER_MODEL,    \* TRUE: the model handle loaded at import; FALSE: None
  GEMINI_API_KEY,   \* the environment's credential, <<>> when unset or empty
  fs,               \* the files that exist in the temporary directory
  pc,               \* where each request's task (or its worker) stands
  request,          \* each request as received
  temp_file_path,   \* create_transcription_route's staged upload
  staged_removals,  \* number of os.remove calls of the handler on its staged upload
  wav_filename,     \* _run_whisper_transcription's normalized file
  exports,          \* number of normalized files written by the request's worker
  recognitions,     \* number of WHISPER_MODEL.transcribe calls of the worker
  whisper_out,      \* the outcome of _run_whisper_transcription
  whisper_fault,    \* the fault met on the way to the recognizer's result, if any
  transcribed_text, \* the handler's transcribed_text, once assigned
  fg_invoked,       \* whether the route called fix_grammar
  attempt,          \* fix_grammar's loop variable
  calls,            \* fix_grammar's POSTs and sleeps, in order
  fg_out,           \* the outcome of fix_grammar
  response_json,    \* the 2xx answer fix_grammar parsed: a BodyIds, 0 no JSON, -1 none
  response          \* the HTTP response of each request

vars == <<WHISPER_MODEL, GEMINI_API_KEY, fs, pc, request, temp_file_path,
          staged_removals, wav_filename, exports, recognitions, whisper_out,
          whisper_fault, transcribed_text, fg_invoked, attempt, calls, fg_out,
          response_json, response>>

globals == <<WHISPER_MODEL, GEMINI_API_KEY>>
trvars == <<temp_file_path, staged_removals, wav_filename, exports, recognitions,
            whisper_out, whisper_fault, transcribed_text>>
fgvars == <<fg_invoked, attempt, calls, fg_out, response_json>>

\* The state once the modules are imported: the model handle loaded or not,
\* the credential set or not, no request received.
Init ==
  /\ WHISPER_MODEL \in BOOLEAN
  /\ GEMINI_API_KEY \in {<<>>, <<"k">>}
  /\ fs = {}
  /\ pc = [r \in Reqs |-> "idle"]
  /\ request = [r \in Reqs |-> NoRequest]
  /\ temp_file_path = [r \in Reqs |-> NoPath]
  /\ staged_removals = [r \in Reqs |-> 0]
  /\ wav_filename = [r \in Reqs |-> NoPath]
  /\ exports = [r \in Reqs |-> 0]
  /\ recognitions = [r \in Reqs |-> 0]
  /\ whisper_out = [r \in Reqs |-> NoOutcome]
  /\ whisper_fault = [r \in Reqs |-> ""]
  /\ transcribed_text = [r \in Reqs |-> NoOutcome]
  /\ fg_invoked = [r \in Reqs |-> FALSE]
  /\ attempt = [r \in Reqs |-> 0]
  /\ calls = [r \in Reqs |-> <<>>]
  /\ fg_out = [r \in Reqs |-> NoOutcome]
  /\ response_json = [r \in Reqs |-> -1]
  /\ response = [r \in Reqs |-> NoResponse]


(***************************************************************************)
(* The event loop: one thread runs every handler, a step at a time between *)
(* awaits; _run_whisper_transcription runs where transcribe_audio_file     *)
(* sends it.                                                               *)
(***************************************************************************)
\* Mutant: transcribe_audio_file calls _run_whisper_transcription inline.
RunsInExecutor_Inline == FALSE

\* await loop.run_in_executor(None, _run_whisper_transcription, file_path)
RunsInExecutor == TRUE

\* Request r's recognizer call has started and has not returned.
WorkerRunning(r) ==
  pc[r] \in {"dispatched", "converted", "conversion_failed", "finally"}

\* Request r's synchronous code occupies the event loop's thread.
HoldsEventLoop(r) == ~RunsInExecutor /\ WorkerRunning(r)

\* The event loop can run a step of request r's handler.
EventLoopFree(r) == \A q \in Reqs \ {r} : ~HoldsEventLoop(q)

(***************************************************************************)
(* The temporary directory: the files that exist, each with the request    *)
(* that wrote it last.                                                     *)
(***************************************************************************)
File(path, owner) == [path |-> path, owner |-> owner]

\* os.path.exists(path)
Exists(files, path) == \E f \in files : f.path = path

\* os.remove(path)
Remove(files, path) == {f \in files : f.path # path}

\* open(path, "wb") by request r: the file is created, or truncated and rewritten
Write(files, path, r) == Remove(files, path) \cup {File(path, r)}

\* if os.path.exists(path): os.remove(path)
RemoveIfExists(files, path) ==
  IF Exists(files, path) THEN Remove(files, path) ELSE files

(***************************************************************************)
(* POST /transcribe                                                        *)
(***************************************************************************)
\* Mutant: the finally block removes nothing.
RouteFinally_NoCleanup(files, path) == files

\* The finally block of create_transcription_route.
RouteFinally(files, path) == RemoveIfExists(files, path)

\* Whether the finally block faults: os.remove raises FileNotFoundError on a
\* missing file, and is called only on one that exists.
RouteFinallyFaults(files, path) == Exists(files, path) /\ ~Exists(files, path)

\* The finally block run by request r on the files as they are: what it leaves,
\* and the removal counted when os.remove ran.
RouteCleanup(r, files, path) ==
  /\ fs' = RouteFinally(files, path)
  /\ staged_removals' = [staged_removals EXCEPT ![r] =
       IF Exists(files, path) /\ ~Exists(RouteFinally(files, path), path)
         THEN @ + 1 ELSE @]

\* transcribe_audio_file: what the awaited worker call resolves to.
transcribe_audio_file(out) ==
  IF out.kind = "raise" THEN None
  ELSE IF out.value.tag = "str" THEN out.value ELSE None

\* Mutant: "if not transcribed_text" in place of "is None".
TranscriptionResult_Falsy(filename, text) ==
  IF text = None \/ text.v = <<>>
    THEN Raise(HTTPException(500, ServiceFailedDetail))
    ELSE Return(Response(200, <<>>, filename, text))

\* The try body of create_transcription_route once the recognizer call resolved.
TranscriptionResult(filename, text) ==
  IF text = None
    THEN Raise(HTTPException(500, ServiceFailedDetail))
    ELSE Return(Response(200, <<>>, filename, text))

\* except Exception as e: raise HTTPException(500, "An error occurred ...: {e}")
RouteExcept(out) ==
  IF out.kind = "raise"
    THEN Response(500, ErrorPrefix \o out.exc.msg, <<>>, None)
    ELSE out.value

\* The handler from the resolution of the recognizer call to the response.
Respond(r, filename, text) ==
  /\ transcribed_text' = [transcribed_text EXCEPT ![r] = Return(text)]
  /\ response' = [response EXCEPT ![r] =
       RouteExcept(TranscriptionResult(filename, text))]
  /\ pc' = [pc EXCEPT ![r] = "done"]

\* The request arrives: validation, staging of the upload, dispatch to the worker.
create_transcription_route(r) ==
  /\ pc[r] = "idle"
  /\ EventLoopFree(r)
  /\ \E file \in Uploads :
       /\ request' = [request EXCEPT ![r] =
            [route |-> "/transcribe", file |-> file, text |-> NoText]]
       /\ IF ~file.present
            \* File(...) is required: the framework answers before the handler runs
            THEN /\ response' = [response EXCEPT ![r] =
                      Response(422, <<"Field required">>, <<>>, None)]
                 /\ pc' = [pc EXCEPT ![r] = "done"]
                 /\ UNCHANGED <<fs, temp_file_path, staged_removals, transcribed_text,
                                whisper_fault>>
            ELSE IF ~Truthy(file)
            THEN /\ response' = [response EXCEPT ![r] =
                      Response(400, NoFileDetail, <<>>, None)]
                 /\ pc' = [pc EXCEPT ![r] = "done"]
                 /\ UNCHANGED <<fs, temp_file_path, staged_removals, transcribed_text,
                                whisper_fault>>
            ELSE \E staging \in {"tempfile_error", "copy_error", "dispatch_error", "ok"} :
                 IF staging = "tempfile_error"
                   \* raised before the try: the framework answers 500
                   THEN /\ response' = [response EXCEPT ![r] =
                             Response(500, <<"Internal Server Error">>, <<>>, None)]
                        /\ pc' = [pc EXCEPT ![r] = "done"]
                        /\ UNCHANGED <<fs, temp_file_path, staged_removals,
                                       transcribed_text, whisper_fault>>
                   ELSE \E rand \in Rands :
                        LET path == TempPath(rand, file.filename) IN
                        \* NamedTemporaryFile creates a file that did not exist
                        /\ ~Exists(fs, path)
                        /\ temp_file_path' = [temp_file_path EXCEPT ![r] = path]
                        /\ CASE staging = "copy_error" ->
                                  /\ response' = [response EXCEPT ![r] =
                                       RouteExcept(Raise(Exc("OSError", <<"copy failed">>)))]
                                  /\ pc' = [pc EXCEPT ![r] = "done"]
                                  /\ RouteCleanup(r, Write(fs, path, r), path)
                                  /\ UNCHANGED <<transcribed_text, whisper_fault>>
                             [] staging = "dispatch_error" ->
                                  /\ whisper_fault' = [whisper_fault EXCEPT ![r] = "dispatch"]
                                  /\ Respond(r, file.filename, transcribe_audio_file(
                                       Raise(Exc("RuntimeError", <<"cannot schedule">>))))
                                  /\ RouteCleanup(r, Write(fs, path, r), path)
                             [] OTHER ->
                                  /\ fs' = Write(fs, path, r)
                                  /\ pc' = [pc EXCEPT ![r] = "dispatched"]
                                  /\ UNCHANGED <<response, transcribed_text, whisper_fault,
                                                 staged_removals>>
  /\ UNCHANGED <<globals, wav_filename, exports, recognitions, whisper_out, fgvars>>

\* Mutant: the unavailable model is reported as any other fault.
ModelUnavailableResult_None == Return(None)

\* if not WHISPER_MODEL: return "Whisper model failed to load at startup. ..."
ModelUnavailableResult == Return(Str(ModelFailedText))

\* The worker thread enters _run_whisper_transcription and converts the audio.
whisper_convert(r) ==
  /\ pc[r] = "dispatched"
  /\ IF ~WHISPER_MODEL
       THEN /\ whisper_out' = [whisper_out EXCEPT ![r] = ModelUnavailableResult]
            /\ pc' = [pc EXCEPT ![r] = "returned"]
            /\ UNCHANGED <<fs, wav_filename, exports, whisper_fault>>
       ELSE LET wav == WavPath(temp_file_path[r]) IN
            /\ wav_filename' = [wav_filename EXCEPT ![r] = wav]
            /\ \E conv \in {"ok", "decode_error", "export_error"} :
                 CASE conv = "ok" ->
                        /\ fs' = Write(fs, wav, r)
                        /\ exports' = [exports EXCEPT ![r] = @ + 1]
                        /\ pc' = [pc EXCEPT ![r] = "converted"]
                        /\ UNCHANGED whisper_fault
                   [] conv = "export_error" ->
                        \* export opened the output and failed while writing it
                        /\ fs' = Write(fs, wav, r)
                        /\ exports' = [exports EXCEPT ![r] = @ + 1]
                        /\ whisper_fault' = [whisper_fault EXCEPT ![r] = "conversion"]
                        /\ pc' = [pc EXCEPT ![r] = "conversion_failed"]
                   [] OTHER ->
                        /\ whisper_fault' = [whisper_fault EXCEPT ![r] = "conversion"]
                        /\ pc' = [pc EXCEPT ![r] = "conversion_failed"]
                        /\ UNCHANGED <<fs, exports>>
            /\ UNCHANGED whisper_out
  /\ UNCHANGED <<globals, request, temp_file_path, staged_removals, recognitions,
                 transcribed_text, fgvars, response>>

\* Mutant: the except block leaves the partial output.
ConversionExcept_NoCleanup(files, wav) == files

\* The except block of the conversion step.
ConversionExcept(files, wav) == RemoveIfExists(files, wav)

\* Mutant: the except block re-raises the conversion fault.
ConversionFailureResult_Raises == Raise(Exc("CouldntDecodeError", <<"decoding failed">>))

\* The except block's return None.
ConversionFailureResult == Return(None)

\* A fault of the conversion step is caught: cleanup, then None.
whisper_conversion_except(r) ==
  /\ pc[r] = "conversion_failed"
  /\ fs' = ConversionExcept(fs, wav_filename[r])
  /\ whisper_out' = [whisper_out EXCEPT ![r] = ConversionFailureResult]
  /\ pc' = [pc EXCEPT ![r] = "returned"]
  /\ UNCHANGED <<globals, request, temp_file_path, staged_removals, wav_filename,
                 exports, recognitions, whisper_fault, transcribed_text, fgvars,
                 response>>

\* result["text"].strip() if result["text"] else ""
TranscribedText(raw) == IF raw # <<>> THEN Strip(raw) ELSE <<>>

\* WHISPER_MODEL.transcribe(wav_filename, fp16=False) returns or raises.
whisper_transcribe(r) ==
  /\ pc[r] = "converted"
  /\ recognitions' = [recognitions EXCEPT ![r] = @ + 1]
  /\ \/ \E raw \in RawTexts :
          /\ whisper_out' = [whisper_out EXCEPT ![r] = Return(Str(TranscribedText(raw)))]
          /\ UNCHANGED whisper_fault
     \/ /\ whisper_out' = [whisper_out EXCEPT ![r] = Return(None)]
        /\ whisper_fault' = [whisper_fault EXCEPT ![r] = "recognition"]
  /\ pc' = [pc EXCEPT ![r] = "finally"]
  /\ UNCHANGED <<globals, fs, request, temp_file_path, staged_removals,
                 wav_filename, exports, transcribed_text, fgvars, response>>

\* Mutant: the finally block removes nothing.
WhisperFinally_NoCleanup(files, wav) == files

\* The finally block of the transcription step.
WhisperFinally(files, wav) == RemoveIfExists(files, wav)

\* The finally block runs, then the value computed before it is returned.
whisper_finally(r) ==
  /\ pc[r] = "finally"
  /\ fs' = WhisperFinally(fs, wav_filename[r])
  /\ pc' = [pc EXCEPT ![r] = "returned"]
  /\ UNCHANGED <<globals, request, trvars, fgvars, response>>

\* The worker's future resolves: the handler resumes, answers and cleans up.
transcription_resolved(r) ==
  /\ pc[r] = "returned"
  /\ EventLoopFree(r)
  /\ Respond(r, request[r].file.filename, transcribe_audio_file(whisper_out[r]))
  /\ RouteCleanup(r, fs, temp_file_path[r])
  /\ UNCHANGED <<globals, request, temp_file_path, wav_filename, exports,
                 recognitions, whisper_out, whisper_fault, fgvars>>

(***************************************************************************)
(* The correction service's JSON answers.  A JSON value is tagged with its *)
(* Python type: dict (a function on its keys), list, str, int or None.     *)
(***************************************************************************)
J(t, v) == [t |-> t, v |-> v]
JDict(m) == J("dict", m)
JList(items) == J("list", items)
JStr(str) == J("str", str)
JInt(n) == J("int", <<n>>)
JNull == J("NoneType", <<>>)
EmptyDict == JDict(<<>>)

\* obj.get(key, default)
Get(obj, key, default) ==
  IF obj.t # "dict" THEN Raise(Exc("AttributeError", <<"no attribute 'get'">>))
  ELSE IF key \in DOMAIN obj.v THEN Return(obj.v[key]) ELSE Return(default)

\* obj[0]
Index0(obj) ==
  CASE obj.t = "list" ->
         IF obj.v = <<>> THEN Raise(Exc("IndexError", <<"list index out of range">>))
         ELSE Return(obj.v[1])
    [] obj.t = "str" ->
         IF obj.v = <<>> THEN Raise(Exc("IndexError", <<"string index out of range">>))
         ELSE Return(JStr(<<obj.v[1]>>))
    [] obj.t = "dict" -> Raise(Exc("KeyError", <<"0">>))
    [] OTHER -> Raise(Exc("TypeError", <<"not subscriptable">>))

\* bool(obj)
JTruthy(obj) ==
  CASE obj.t = "NoneType" -> FALSE
    [] obj.t = "int" -> obj.v[1] # 0
    [] obj.t = "dict" -> DOMAIN obj.v # {}
    [] OTHER -> obj.v # <<>>

\* Mutant: the text is tested against None, not for truth.
TextResult_NotNone(corrected_text) ==
  IF corrected_text.t # "NoneType"
    THEN IF corrected_text.t = "str"
           THEN Return(Str(Strip(corrected_text.v)))
           ELSE Raise(Exc("AttributeError", <<"no attribute 'strip'">>))
    ELSE Return(None)

\* if corrected_text: return corrected_text.strip() ... return None
TextResult(corrected_text) ==
  IF JTruthy(corrected_text)
    THEN IF corrected_text.t = "str"
           THEN Return(Str(Strip(corrected_text.v)))
           ELSE Raise(Exc("AttributeError", <<"no attribute 'strip'">>))
    ELSE Return(None)

\* corrected_text = parts[0].get('text'), then the result
PartText(part) ==
  LET text == Get(part, "text", JNull) IN
  IF text.kind = "raise" THEN text ELSE TextResult(text.value)

\* parts = content.get('parts', [{}]), then parts[0]
ContentPart(content) ==
  LET parts == Get(content, "parts", JList(<<EmptyDict>>)) IN
  IF parts.kind = "raise" THEN parts ELSE
  LET part == Index0(parts.value) IN
  IF part.kind = "raise" THEN part ELSE PartText(part.value)

\* content = candidate.get('content', {})
CandidateContent(candidate) ==
  LET content == Get(candidate, "content", EmptyDict) IN
  IF content.kind = "raise" THEN content ELSE ContentPart(content.value)

\* candidate = result.get('candidates', [{}])[0], and the rest of the extraction
ParseResult(result) ==
  LET candidates == Get(result, "candidates", JList(<<EmptyDict>>)) IN
  IF candidates.kind = "raise" THEN candidates ELSE
  LET candidate == Index0(candidates.value) IN
  IF candidate.kind = "raise" THEN candidate ELSE CandidateContent(candidate.value)

Candidates(parts) ==
  JDict([candidates |-> JList(<<JDict([content |-> JDict([parts |-> parts])])>>)])
WithText(text) == Candidates(JList(<<JDict([text |-> text])>>))

\* The bodies a 2xx answer may carry.
BodyIds == 1..13
Body(b) ==
  CASE b = 1 -> WithText(JStr(<<" ", "o", "k", " ">>))
    [] b = 2 -> WithText(JStr(<<"o", "k">>))
    [] b = 3 -> JDict([candidates |-> JList(<<>>)])
    [] b = 4 -> EmptyDict
    [] b = 5 -> JDict([candidates |-> JList(<<EmptyDict>>)])
    [] b = 6 -> Candidates(JList(<<>>))
    [] b = 7 -> Candidates(JList(<<EmptyDict>>))
    [] b = 8 -> WithText(JStr(<<>>))
    [] b = 9 -> WithText(JStr(<<" ">>))
    [] b = 10 -> WithText(JNull)
    [] b = 11 -> WithText(JInt(5))
    [] b = 12 -> JList(<<>>)
    [] OTHER -> JDict([candidates |-> JNull])

\* result = response.json() (JSONDecodeError when the body is no JSON), parsed
ParseResponse(valid, b) ==
  IF valid THEN ParseResult(Body(b))
  ELSE Raise(Exc("JSONDecodeError", <<"Expecting value">>))

(***************************************************************************)
(* POST /fix-grammar                                                       *)
(***************************************************************************)
\* for attempt in range(4)
MaxAttempts == 4

\* The statuses the correction service answers with.
Statuses == {200, 429, 500, 503}
\* What client.post raises when no answer arrives.
PostFaults == {"ConnectError", "Exception"}

\* response.raise_for_status() returns (2xx) instead of raising HTTPStatusError
IsSuccess(status) == 200 <= status /\ status <= 299

\* Mutant: the last attempt is retried like the others.
ShouldRetry_NoLimit(status, att) == status \in {429, 503}

\* Mutant: every error status is retried.
ShouldRetry_AnyError(status, att) == status >= 400 /\ att < 3

\* e.response.status_code in [429, 503] and attempt < 3
ShouldRetry(status, att) == status \in {429, 503} /\ att < 3

\* Mutant: 2 * attempt.
Delay_Linear(att) == 2 * att

\* delay = 2 ** attempt
Delay(att) == 2 ^ att

Post(status, exc) == [op |-> "post", status |-> status, exc |-> exc, delay |-> 0]
Sleep(delay) == [op |-> "sleep", status |-> 0, exc |-> "", delay |-> delay]
\* A POST that has not resolved yet.
PendingPost == Post(0, "pending")

\* The base class of an exception class.
BaseOf(cls) ==
  CASE cls \in {"HTTPStatusError", "ConnectError"} -> "HTTPError"
    [] cls \in {"IndexError", "KeyError"} -> "LookupError"
    [] cls = "JSONDecodeError" -> "ValueError"
    [] cls \in {"HTTPError", "LookupError", "ValueError", "AttributeError",
                "TypeError", "OSError", "RuntimeError"} -> "Exception"
    [] OTHER -> "BaseException"

\* isinstance(e, base) for an exception e of class cls
RECURSIVE IsInstance(_, _)
IsInstance(cls, base) ==
  \/ cls = base
  \/ cls # "BaseException" /\ IsInstance(BaseOf(cls), base)

\* Mutant: the except Exception clause is missing.
FixGrammarExcept_Narrow(out) ==
  IF out.kind # "raise" THEN out
  ELSE IF IsInstance(out.exc.cls, "HTTPStatusError")
          \/ IsInstance(out.exc.cls, "IndexError") THEN Return(None)
  ELSE out

\* except (httpx.HTTPStatusError, IndexError): ... return None
\* except Exception: ... return None
FixGrammarExcept(out) ==
  IF out.kind # "raise" THEN out
  ELSE IF IsInstance(out.exc.cls, "HTTPStatusError")
          \/ IsInstance(out.exc.cls, "IndexError") THEN Return(None)
  ELSE IF IsInstance(out.exc.cls, "Exception") THEN Return(None)
  ELSE out

\* fix_grammar_route once fix_grammar resolved.
GrammarResponse(out) ==
  IF out.kind = "raise"
    THEN Response(500, <<"Internal Server Error">>, <<>>, None)
    ELSE IF out.value = None
      THEN Response(500, GrammarFailedDetail, <<>>, None)
      ELSE Response(200, <<>>, <<>>, out.value)

\* fix_grammar resolves with out; the route, when it made the call, answers.
FixGrammarResolves(r, route, out) ==
  /\ fg_out' = [fg_out EXCEPT ![r] = out]
  /\ pc' = [pc EXCEPT ![r] = "done"]
  /\ response' = [response EXCEPT ![r] =
       IF route = "/fix-grammar" THEN GrammarResponse(out) ELSE NoResponse]

\* Mutant: the threshold is off by one.
TooShort_OffByOne(text) == text = <<>> \/ Len(text) < 9

\* not request.text or len(request.text) < 10
TooShort(text) == text = <<>> \/ Len(text) < 10

\* Mutant: the credential is only checked against None, which getenv with a
\* default never returns.
NoCredential_IsNone(api_key) == FALSE

\* api_key = os.getenv("GEMINI_API_KEY", ""); if not api_key: return None
NoCredential(api_key) == api_key = <<>>

\* fix_grammar up to its first await: the guards, then the first POST.
FixGrammarStart(r, route, text) ==
  /\ fg_invoked' = [fg_invoked EXCEPT ![r] = TRUE]
  /\ IF text = <<>> \/ NoCredential(GEMINI_API_KEY)
       THEN /\ FixGrammarResolves(r, route, Return(None))
            /\ UNCHANGED <<attempt, calls, response_json>>
       ELSE /\ attempt' = [attempt EXCEPT ![r] = 0]
            /\ calls' = [calls EXCEPT ![r] = <<PendingPost>>]
            /\ pc' = [pc EXCEPT ![r] = "posting"]
            /\ UNCHANGED <<fg_out, response_json, response>>

\* The request arrives: validation, then fix_grammar up to its first await.
fix_grammar_route(r) ==
  /\ pc[r] = "idle"
  /\ EventLoopFree(r)
  /\ \E text \in Texts :
       /\ request' = [request EXCEPT ![r] =
            [route |-> "/fix-grammar", file |-> NoFile, text |-> text]]
       /\ IF ~text.present
            \* GrammarFixRequest.text is required: the framework answers
            THEN /\ response' = [response EXCEPT ![r] =
                      Response(422, <<"Field required">>, <<>>, None)]
                 /\ pc' = [pc EXCEPT ![r] = "done"]
                 /\ UNCHANGED fgvars
            ELSE IF TooShort(text.v)
            THEN /\ response' = [response EXCEPT ![r] =
                      Response(400, TooShortDetail, <<>>, None)]
                 /\ pc' = [pc EXCEPT ![r] = "done"]
                 /\ UNCHANGED fgvars
            ELSE FixGrammarStart(r, "/fix-grammar", text.v)
  /\ UNCHANGED <<globals, fs, trvars>>

\* fix_grammar called directly, as the service tests call it.  A direct call
\* with a text that is not empty runs as the route's call does, so only the
\* empty text, which the route never passes, is called directly.
DirectTexts == {TextOf(0)}
fix_grammar(r) ==
  /\ pc[r] = "idle"
  /\ EventLoopFree(r)
  /\ \E text \in DirectTexts :
       /\ request' = [request EXCEPT ![r] =
            [route |-> "fix_grammar", file |-> NoFile,
             text |-> [present |-> TRUE, v |-> text]]]
       /\ FixGrammarStart(r, "fix_grammar", text)
  /\ UNCHANGED <<globals, fs, trvars>>

\* The calls with the pending POST resolved.
Resolved(log, status, exc) == [log EXCEPT ![Len(log)] = Post(status, exc)]

\* The code after the retry loop: the answer is parsed, faults are caught.
AfterLoop(r, log) ==
  \E b \in {0} \cup BodyIds :
    /\ calls' = [calls EXCEPT ![r] = log]
    /\ FixGrammarResolves(r, request[r].route,
         FixGrammarExcept(ParseResponse(b \in BodyIds, b)))
    /\ response_json' = [response_json EXCEPT ![r] = b]
    /\ UNCHANGED <<fg_invoked, attempt>>

\* The pending POST resolves: an answer with a status, or a fault.
fix_grammar_post_resolved(r) ==
  /\ pc[r] = "posting"
  /\ EventLoopFree(r)
  /\ \/ \E exc \in PostFaults :
          /\ calls' = [calls EXCEPT ![r] = Resolved(@, 0, exc)]
          /\ FixGrammarResolves(r, request[r].route,
               FixGrammarExcept(Raise(Exc(exc, <<"post failed">>))))
          /\ UNCHANGED <<fg_invoked, attempt, response_json>>
     \/ \E status \in Statuses :
          IF IsSuccess(status)
            THEN AfterLoop(r, Resolved(calls[r], status, ""))
            ELSE IF ShouldRetry(status, attempt[r])
              THEN /\ calls' = [calls EXCEPT ![r] =
                        Append(Resolved(@, status, ""), Sleep(Delay(attempt[r])))]
                   /\ pc' = [pc EXCEPT ![r] = "sleeping"]
                   /\ UNCHANGED <<fg_invoked, attempt, fg_out, response_json, response>>
              ELSE /\ calls' = [calls EXCEPT ![r] = Resolved(@, status, "")]
                   /\ FixGrammarResolves(r, request[r].route,
                        FixGrammarExcept(Raise(Exc("HTTPStatusError", <<"status">>))))
                   /\ UNCHANGED <<fg_invoked, attempt, response_json>>
  /\ UNCHANGED <<globals, fs, request, trvars>>

\* asyncio.sleep(delay) is over: the next iteration of the loop, if there is one.
fix_grammar_sleep_resolved(r) ==
  /\ pc[r] = "sleeping"
  /\ EventLoopFree(r)
  /\ IF attempt[r] + 1 < MaxAttempts
       THEN /\ attempt' = [attempt EXCEPT ![r] = @ + 1]
            /\ calls' = [calls EXCEPT ![r] = Append(@, PendingPost)]
            /\ pc' = [pc EXCEPT ![r] = "posting"]
            /\ UNCHANGED <<fg_invoked, fg_out, response_json, response>>
       ELSE AfterLoop(r, calls[r])
  /\ UNCHANGED <<globals, fs, request, trvars>>

Next ==
  \E r \in Reqs :
    \/ create_transcription_route(r)
    \/ whisper_convert(r)
    \/ whisper_conversion_except(r)
    \/ whisper_transcribe(r)
    \/ whisper_finally(r)
    \/ transcription_resolved(r)
    \/ fix_grammar_route(r)
    \/ fix_grammar(r)
    \/ fix_grammar_post_resolved(r)
    \/ fix_grammar_sleep_resolved(r)

Spec == Init /\ [][Next]_vars

\* Every POST is answered or faults, and every asyncio.sleep ends: the awaits
\* of fix_grammar complete (the client's timeout bounds the POST, the delay
\* bounds the sleep).
Fairness ==
  \A r \in Reqs :
    /\ WF_vars(fix_grammar_post_resolved(r))
    /\ WF_vars(fix_grammar_sleep_resolved(r))

\* fix_grammar shares nothing with another request, so its termination is
\* checked on one request, which may be any of the calls the program serves.
FairNext ==
  \E r \in {1} :
    \/ create_transcription_route(r)
    \/ whisper_convert(r)
    \/ whisper_conversion_except(r)
    \/ whisper_transcribe(r)
    \/ whisper_finally(r)
    \/ transcription_resolved(r)
    \/ fix_grammar_route(r)
    \/ fix_grammar(r)
    \/ fix_grammar_post_resolved(r)
    \/ fix_grammar_sleep_resolved(r)

FairSpec == Init /\ [][FairNext]_vars /\ Fairness

(***************************************************************************)
(* Properties.                                                             *)
(***************************************************************************)
IsPost(e) == e.op = "post"
IsSleep(e) == e.op = "sleep"
\* The POSTs of a request, and their statuses; the delays slept.
PostsOf(r) == SelectSeq(calls[r], IsPost)
StatusesOf(r) == [k \in 1..Len(PostsOf(r)) |-> PostsOf(r)[k].status]
DelaysOf(r) ==
  [k \in 1..Len(SelectSeq(calls[r], IsSleep)) |-> SelectSeq(calls[r], IsSleep)[k].delay]
\* The temporary files a request wrote that still exist.
FilesOf(r) == {f \in fs : f.owner = r}
IsTranscribe(r) == request[r].route = "/transcribe"
IsFixGrammar(r) == request[r].route = "/fix-grammar"

\* C1: once a /transcribe request that carries a file has its response (200
\* or 500), on whichever path, the staged upload file it created does not
\* exist.
C1_StagedFileRemoved ==
  \A r \in Reqs :
    (pc[r] = "done" /\ IsTranscribe(r) /\ request[r].file.present) =>
      /\ response[r].status \in {200, 500}
      /\ ~\E f \in FilesOf(r) : f.path.kind = "upload"

\* C1 witness: a request whose upload was staged and transcribed has its 200
\* and its staged file is gone.
C1_Witness ==
  \E r \in Reqs :
    /\ pc[r] = "done" /\ IsTranscribe(r) /\ response[r].status = 200
    /\ temp_file_path[r] # NoPath /\ recognitions[r] = 1
    /\ ~Exists(fs, temp_file_path[r])

\* C2: fix_grammar makes at most 4 POSTs; every POST but the last was answered
\* 429 or 503; a POST that resolves otherwise, or the 4th POST, ends the call;
\* four answers of 429 or 503 end it with None.
C2_BoundedRetry ==
  \A r \in Reqs :
    LET posts == PostsOf(r)
        n == Len(posts)
    IN /\ n <= 4
       /\ \A k \in 1..(n - 1) : posts[k].exc = "" /\ posts[k].status \in {429, 503}
       /\ (n > 0 /\ posts[n].exc # "pending"
             /\ ~(posts[n].exc = "" /\ posts[n].status \in {429, 503} /\ n < 4))
            => pc[r] = "done"
       /\ (n = 4 /\ posts[4].exc = "" /\ posts[4].status \in {429, 503})
            => fg_out[r] = Return(None)
       /\ (pc[r] = "done" /\ n > 0) => posts[n].exc # "pending"

\* C2 witness: the service answered 429 four times and the call gave up.
C2_Witness ==
  \E r \in Reqs :
    /\ pc[r] = "done" /\ fg_out[r] = Return(None)
    /\ StatusesOf(r) = <<429, 429, 429, 429>>

\* C3: POSTs and sleeps alternate, starting and (once the call has ended)
\* ending with a POST; the k-th sleep lasts 2^(k-1); answers 429, 429, 200 make
\* exactly 3 POSTs with delays 1 and 2 between them.
C3_BackoffDelays ==
  \A r \in Reqs :
    LET log == calls[r] IN
    /\ \A i \in 1..Len(log) :
         IF i % 2 = 1 THEN log[i].op = "post"
         ELSE log[i].op = "sleep" /\ log[i].delay = 2 ^ ((i \div 2) - 1)
    /\ (pc[r] = "done" /\ log # <<>>) => log[Len(log)].op = "post"
    /\ (pc[r] = "done" /\ Len(PostsOf(r)) >= 3
          /\ SubSeq(StatusesOf(r), 1, 3) = <<429, 429, 200>>)
         => Len(PostsOf(r)) = 3 /\ DelaysOf(r) = <<1, 2>>

\* C3 witness: answers 429, 429, 200 and the calls made for them.
C3_Witness ==
  \E r \in Reqs :
    /\ pc[r] = "done"
    /\ calls[r] = <<Post(429, ""), Sleep(1), Post(429, ""), Sleep(2), Post(200, "")>>

\* C4: fix_grammar never ends by raising: whatever the service did, it
\* returns a str or None.
C4_NoExceptionEscapes ==
  \A r \in Reqs :
    /\ fg_out[r].kind # "raise"
    /\ fg_out[r].kind = "return" => fg_out[r].value.tag \in {"str", "None"}
    /\ (fg_invoked[r] /\ pc[r] = "done") => fg_out[r].kind = "return"

\* C4 witness: a POST failed at the network level and the call returned None.
C4_Witness ==
  \E r \in Reqs :
    /\ pc[r] = "done" /\ fg_out[r] = Return(None)
    /\ calls[r] # <<>> /\ calls[r][Len(calls[r])].exc = "ConnectError"

\* C5: without a credential, fix_grammar returns None without a single POST,
\* and the /fix-grammar route answers 500.
C5_NoCredentialNoCall ==
  GEMINI_API_KEY = <<>> =>
    \A r \in Reqs :
      fg_invoked[r] =>
        /\ calls[r] = <<>>
        /\ fg_out[r] = Return(None)
        /\ IsFixGrammar(r) => response[r].status = 500

\* C5 witness: a /fix-grammar request with a valid text, no credential.
C5_Witness ==
  /\ GEMINI_API_KEY = <<>>
  /\ \E r \in Reqs :
       /\ IsFixGrammar(r) /\ fg_invoked[r] /\ Len(request[r].text.v) >= 10
       /\ calls[r] = <<>> /\ response[r].status = 500

\* C6: a /fix-grammar request whose text is shorter than 10 (the empty text
\* too) is answered 400, and fix_grammar is not invoked: no POST is made.
C6_ShortTextRejected ==
  \A r \in Reqs :
    (IsFixGrammar(r) /\ request[r].text.present /\ Len(request[r].text.v) < 10) =>
      /\ response[r].status = 400
      /\ ~fg_invoked[r]
      /\ calls[r] = <<>>

\* C6 witness: a text of 9 characters is answered 400.
C6_Witness ==
  \E r \in Reqs :
    /\ IsFixGrammar(r) /\ request[r].text.present /\ Len(request[r].text.v) = 9
    /\ response[r].status = 400 /\ ~fg_invoked[r]

\* C7: when the recognizer call resolves to None the response is 500 and its
\* detail contains "Transcription service failed"; when it resolves to the
\* empty string the response is 200 with transcription "" and the filename.
C7_FailureDistinctFromEmpty ==
  \A r \in Reqs :
    (pc[r] = "done" /\ IsTranscribe(r) /\ transcribed_text[r].kind = "return") =>
      /\ transcribed_text[r].value = None =>
           /\ response[r].status = 500
           /\ Contains(response[r].detail, "Transcription service failed")
      /\ transcribed_text[r].value = Str(<<>>) =>
           /\ response[r].status = 200
           /\ response[r].text = Str(<<>>)
           /\ response[r].filename = request[r].file.filename

\* C7 witness: one request resolved to None, another to the empty string.
C7_Witness ==
  \E r1, r2 \in Reqs :
    /\ pc[r1] = "done" /\ transcribed_text[r1] = Return(None)
    /\ response[r1].status = 500
    /\ pc[r2] = "done" /\ transcribed_text[r2] = Return(Str(<<>>))
    /\ response[r2].status = 200

\* C8: once _run_whisper_transcription has returned, no normalized file the
\* call wrote exists, whether conversion or recognition succeeded or raised.
C8_NormalizedFileRemoved ==
  \A r \in Reqs :
    pc[r] \in {"returned", "done"} => ~\E f \in FilesOf(r) : f.path.kind = "wav"

\* C8 witness: the normalized file was written, the recognizer ran, the call
\* returned, the file is gone.
C8_Witness ==
  \E r \in Reqs :
    /\ pc[r] = "returned" /\ exports[r] = 1 /\ recognitions[r] = 1
    /\ ~Exists(fs, wav_filename[r])

\* C9 as stated: an upload of zero bytes, or a request without the file field,
\* is answered 400 or 422 and leaves no temporary file.
C9_Original ==
  \A r \in Reqs :
    (pc[r] = "done" /\ IsTranscribe(r)
       /\ (~request[r].file.present \/ request[r].file.size = 0)) =>
      /\ response[r].status \in {400, 422}
      /\ FilesOf(r) = {}

\* C9 as amended: a request without the file field is answered 422 before any
\* temporary file is created; an upload of zero bytes is staged and handled as
\* any other upload, so it is answered 200 or 500; neither leaves a temporary
\* file.
C9_EmptyOrMissingUpload ==
  \A r \in Reqs :
    (pc[r] = "done" /\ IsTranscribe(r)) =>
      /\ ~request[r].file.present =>
           /\ response[r].status = 422
           /\ temp_file_path[r] = NoPath
           /\ FilesOf(r) = {}
      /\ (request[r].file.present /\ request[r].file.size = 0) =>
           /\ response[r].status \in {200, 500}
           /\ FilesOf(r) = {}

\* C9 witness: a zero-byte upload whose conversion failed after the output was
\* opened: 500, and no file left.
C9_Witness ==
  \E r \in Reqs :
    /\ pc[r] = "done" /\ IsTranscribe(r)
    /\ request[r].file.present /\ request[r].file.size = 0
    /\ whisper_fault[r] = "conversion" /\ exports[r] = 1
    /\ response[r].status = 500 /\ FilesOf(r) = {}

\* C10: with the model handle unavailable _run_whisper_transcription returns
\* the diagnostic string, writes no normalized file and never calls the
\* recognizer; a conversion or recognition fault makes it return None, and any
\* fault, dispatch included, resolves the recognizer call to None.
C10_ModelUnavailableDiagnostic ==
  \A r \in Reqs :
    /\ whisper_out[r].kind # "raise"
    /\ (~WHISPER_MODEL /\ pc[r] \in {"returned", "done"}
          /\ whisper_out[r].kind # "none") =>
         /\ whisper_out[r] = Return(Str(ModelFailedText))
         /\ exports[r] = 0 /\ recognitions[r] = 0
         /\ wav_filename[r] = NoPath
    /\ (whisper_fault[r] \in {"conversion", "recognition"}
          /\ pc[r] \in {"returned", "done"}) =>
         whisper_out[r] = Return(None)
    /\ (whisper_fault[r] # "" /\ pc[r] = "done") =>
         transcribed_text[r] = Return(None)

\* C10 witness: the model is unavailable and a request got the diagnostic.
C10_Witness ==
  /\ ~WHISPER_MODEL
  /\ \E r \in Reqs :
       /\ pc[r] = "done" /\ whisper_out[r] = Return(Str(ModelFailedText))
       /\ response[r].text = Str(ModelFailedText)

\* The shapes of a body that carries no usable text: candidates missing or an
\* empty list, content missing, parts an empty list, text absent or empty.
LacksUsableText(j) ==
  /\ j.t = "dict"
  /\ \/ "candidates" \notin DOMAIN j.v
     \/ j.v.candidates = JList(<<>>)
     \/ /\ j.v.candidates.t = "list" /\ j.v.candidates.v # <<>>
        /\ LET candidate == j.v.candidates.v[1] IN
           /\ candidate.t = "dict"
           /\ \/ "content" \notin DOMAIN candidate.v
              \/ /\ candidate.v.content.t = "dict"
                 /\ "parts" \in DOMAIN candidate.v.content.v
                 /\ LET parts == candidate.v.content.v.parts IN
                    \/ parts = JList(<<>>)
                    \/ /\ parts.t = "list" /\ parts.v # <<>>
                       /\ parts.v[1].t = "dict"
                       /\ \/ "text" \notin DOMAIN parts.v[1].v
                          \/ parts.v[1].v.text = JStr(<<>>)

\* C11: when the 2xx answer fix_grammar parsed lacks a usable text (candidates
\* missing or empty, content missing, parts empty, text absent or empty), the
\* call returns None and raises nothing.
C11_NoUsableTextIsNone ==
  \A r \in Reqs :
    (response_json[r] \in BodyIds /\ LacksUsableText(Body(response_json[r]))) =>
      fg_out[r] = Return(None)

\* C11 witness: the first answer was a 200 whose candidates list is empty, the
\* route answered 500.
C11_Witness ==
  \E r \in Reqs :
    /\ pc[r] = "done" /\ IsFixGrammar(r)
    /\ StatusesOf(r) = <<200>>
    /\ response_json[r] \in BodyIds
    /\ Body(response_json[r]) = JDict([candidates |-> JList(<<>>)])
    /\ fg_out[r] = Return(None) /\ response[r].status = 500

\* A request between its arrival and its response.
InFlight(r) == pc[r] \notin {"idle", "done"}
\* The normalized files a request wrote that still exist.
WavFilesOf(r) == {f \in FilesOf(r) : f.path.kind = "wav"}

\* C12: two requests in flight at once have distinct normalized file names, each
\* has at most one normalized file, and between its conversion and its cleanup
\* a request's normalized file is there and its own: no other request
\* overwrote or removed it.
C12_DistinctNormalizedNames ==
  \A r1 \in Reqs :
    /\ Cardinality(WavFilesOf(r1)) <= 1
    /\ pc[r1] \in {"converted", "finally"} =>
         File(wav_filename[r1], r1) \in fs
    /\ \A r2 \in Reqs \ {r1} :
         (InFlight(r1) /\ InFlight(r2)
            /\ wav_filename[r1] # NoPath /\ wav_filename[r2] # NoPath) =>
           wav_filename[r1] # wav_filename[r2]

\* The request staged an upload.
Staged(r) == temp_file_path[r] # NoPath
\* The handler's await of the recognizer call is over.
CallResolved(r) == transcribed_text[r].kind = "return"
\* The recognizer call is with the worker, or its result awaits the handler.
CallPending(r) ==
  pc[r] \in {"dispatched", "converted", "conversion_failed", "finally", "returned"}
\* The request failed while copying the upload: no recognizer call was made.
CopyFaulted(r) ==
  /\ pc[r] = "done" /\ Staged(r) /\ transcribed_text[r] = NoOutcome
  /\ whisper_out[r] = NoOutcome /\ response[r].status = 500

\* What C13 and its original statement share: at most one removal; a request
\* that staged a file has removed it exactly once when it answers; while the
\* recognizer call is pending the file is there, never removed; running the
\* guarded removal on the absent file faults nothing.
StagedRemovedOnce(r) ==
  /\ staged_removals[r] <= 1
  /\ (pc[r] = "done" /\ Staged(r)) =>
       /\ staged_removals[r] = 1
       /\ File(temp_file_path[r], r) \notin fs
       /\ ~RouteFinallyFaults(fs, temp_file_path[r])
  /\ CallPending(r) =>
       /\ staged_removals[r] = 0
       /\ File(temp_file_path[r], r) \in fs

\* C13 as stated: the staged upload is removed exactly once per request, only
\* after the recognizer call of the request has resolved, never while the
\* recognition runs, by a removal that an absent file does not make fault.
C13_Original ==
  \A r \in Reqs :
    /\ StagedRemovedOnce(r)
    /\ staged_removals[r] = 1 => CallResolved(r)

\* C13: the staged upload is removed exactly once per request that staged it,
\* never while the recognizer call is pending, by a removal that an absent file
\* does not make fault; the removal follows the resolution of the recognizer
\* call, or, when copying the upload faulted, happens without any call.
C13_StagedRemovedOnceAfterCall ==
  \A r \in Reqs :
    /\ StagedRemovedOnce(r)
    /\ staged_removals[r] = 1 => (CallResolved(r) \/ CopyFaulted(r))

\* C13 witness: the recognizer faulted on the worker, the call resolved to
\* None, and the handler then removed its staged upload, once.
C13_Witness ==
  \E r \in Reqs :
    /\ pc[r] = "done" /\ Staged(r) /\ whisper_fault[r] = "recognition"
    /\ CallResolved(r) /\ staged_removals[r] = 1
    /\ File(temp_file_path[r], r) \notin fs

\* C14: once decoding or re-encoding has failed in _run_whisper_transcription
\* and the call has returned, no normalized output of the request is left, the
\* recognizer was never invoked for the call, and the call returned None: no
\* exception propagated.
C14_ConversionFailureCleansUp ==
  \A r \in Reqs :
    (whisper_fault[r] = "conversion" /\ pc[r] \in {"returned", "done"}) =>
      /\ WavFilesOf(r) = {}
      /\ recognitions[r] = 0
      /\ whisper_out[r] = Return(None)

\* C14 witness: the export wrote part of the normalized file and failed; the
\* call returned None, the partial file is gone, the recognizer never ran.
C14_Witness ==
  \E r \in Reqs :
    /\ pc[r] = "returned" /\ whisper_fault[r] = "conversion" /\ exports[r] = 1
    /\ wav_filename[r] # NoPath /\ ~Exists(fs, wav_filename[r])
    /\ recognitions[r] = 0 /\ whisper_out[r] = Return(None)

\* C15: while one request's recognition runs on the worker, the event loop
\* takes the steps of another request: it accepts its /fix-grammar call,
\* resumes it when its POST is answered or its backoff delay is over; the
\* transcribing request has no response and does not resume until its worker
\* has returned, and then answers with what the worker returned.
C15_ResponsiveWhileRecognizing ==
  \A r1 \in Reqs :
    /\ WorkerRunning(r1) =>
         /\ response[r1] = NoResponse
         /\ ~ENABLED transcription_resolved(r1)
         /\ \A r2 \in Reqs \ {r1} :
              /\ pc[r2] = "idle" => ENABLED fix_grammar_route(r2)
              /\ pc[r2] = "posting" => ENABLED fix_grammar_post_resolved(r2)
              /\ pc[r2] = "sleeping" => ENABLED fix_grammar_sleep_resolved(r2)
    /\ (pc[r1] = "done" /\ whisper_out[r1] # NoOutcome) =>
         transcribed_text[r1] = Return(transcribe_audio_file(whisper_out[r1]))

\* C15 witness: one request's recognition is about to run on the worker while
\* another, after two 503 answers, is in its second backoff delay and can
\* resume.
C15_Witness ==
  \E r1, r2 \in Reqs :
    /\ r1 # r2 /\ pc[r1] = "converted"
    /\ pc[r2] = "sleeping" /\ StatusesOf(r2) = <<503, 503>>
    /\ ENABLED fix_grammar_sleep_resolved(r2)

\* The sum of a sequence of numbers.
RECURSIVE Sum(_)
Sum(seq) == IF seq = <<>> THEN 0 ELSE Head(seq) + Sum(Tail(seq))

\* fix_grammar is between its first POST and its return.
FixGrammarRunning(r) == pc[r] \in {"posting", "sleeping"}

\* C16: when every POST and every backoff delay completes, a call of
\* fix_grammar that has started its POSTs eventually returns, a text or None,
\* whatever the service answers; it makes at most 4 POSTs and at most 3 delays,
\* which total at most 7.
C16_FixGrammarTerminates ==
  /\ [](\A r \in Reqs :
          /\ Len(PostsOf(r)) <= 4
          /\ Len(DelaysOf(r)) <= 3
          /\ Sum(DelaysOf(r)) <= 7)
  /\ \A r \in Reqs :
       FixGrammarRunning(r) ~> (pc[r] = "done" /\ fg_out[r].kind = "return")

\* C16 witness: the service answered 503, 429, 503 and 429; the call slept 1, 2
\* and 4, made its 4th POST and returned None.
C16_Witness ==
  \E r \in Reqs :
    /\ pc[r] = "done" /\ fg_out[r] = Return(None)
    /\ StatusesOf(r) = <<503, 429, 503, 429>>
    /\ Len(PostsOf(r)) = 4 /\ Sum(DelaysOf(r)) = 7

\* A text that is not empty and has no leading or trailing whitespace.
NonEmptyTrimmed(text) ==
  /\ text.tag = "str"
  /\ text.v # <<>>
  /\ Strip(text.v) = text.v

\* C17: a text that fix_grammar returns, and so the corrected_text of a 200 of
\* /fix-grammar, is non-empty and trimmed, whatever body the service sent:
\* the call returns such a text or None, never the empty string.
C17_ReturnedTextNonEmptyTrimmed ==
  \A r \in Reqs :
    /\ (fg_out[r].kind = "return" /\ fg_out[r].value # None) =>
         NonEmptyTrimmed(fg_out[r].value)
    /\ (pc[r] = "done" /\ IsFixGrammar(r) /\ response[r].status = 200) =>
         NonEmptyTrimmed(response[r].text)

=============================================================================
